---------------------------- MODULE Spec2Model ----------------------------
(***************************************************************************)
(* Model of cmd/crypto/vault.go: the Hashicorp Vault KMS client.           *)
(*                                                                         *)
(* One client is constructed by NewVault (validate, create the API client, *)
(* login).  A successful login stores the token and the lease duration and *)
(* starts the background goroutine of authenticate(), which loops over     *)
(* renewSecret / login / sleep.  Callers run GenerateKey and UnsealKey     *)
(* concurrently with that goroutine.                                       *)
(*                                                                         *)
(* The Vault service and the Vault API library (the renewer goroutine, the *)
(* Logical().Write transport) are the environment: their answers are       *)
(* chosen nondeterministically from the shapes the library's types allow.  *)
(***************************************************************************)
EXTENDS Integers, Sequences, FiniteSets, TLC

VARIABLES
    config,      \* the VaultConfig handed to NewVault
    ctor,        \* position of the NewVault call: "validate", "client", "login", "returned", "failed"
    ctorErr,     \* the error NewVault returns ("nil" while none)
    token,       \* v.client's token ("" is modelled as 0)
    lease,       \* v.leaseDuration
    bg,          \* position of the background goroutine of authenticate()
    secret,      \* the goroutine's variable `secret`
    newSecret,   \* the goroutine's variable `newSecret`
    watcher,     \* the renewer goroutine of the current renewSecret call
    renewCh,     \* renewer.RenewCh(): buffered channel of renew outputs
    doneCh,      \* renewer.DoneCh(): buffered channel (capacity 1) of errors
    recovered,   \* the remote service has recovered for good: every login succeeds
    calls,       \* per caller: the GenerateKey/UnsealKey call in flight
    delivered,   \* history: the tokens of the well-formed secrets the remote service has delivered
    loginSent,   \* history: a login request has been sent to the remote service
    err,         \* the goroutine's variable `err`
    lastLogin,   \* history: "failed" after a failed background login, "slept" once the
                 \* backoff wait that follows it is over, "none" once a renewal or a
                 \* login has succeeded
    via,         \* history: where newSecret came from ("renew", "login", "none")
    tasks,       \* history: how many times the go statement of authenticate() has run
    genCall,     \* a GenerateKey call with its arguments, request, answer and results
    unsealCall   \* the UnsealKey call that follows it, likewise

vars == <<config, ctor, ctorErr, token, lease, bg, secret, newSecret, watcher,
          renewCh, doneCh, err, recovered, calls, delivered, loginSent, lastLogin, via,
          tasks, genCall, unsealCall>>

----------------------------------------------------------------------------
(* Bounds *)

NumTokens == 2      \* distinct client tokens the remote service hands out
MaxLease == 2       \* distinct lease durations
NumCallers == 2     \* concurrent callers of GenerateKey / UnsealKey

Tokens == 1..NumTokens
Leases == 1..MaxLease
Callers == 1..NumCallers

----------------------------------------------------------------------------
(* *vault.Secret values.  kind "nil": a nil *Secret; "noauth": a Secret    *)
(* whose Auth is nil; "auth": a Secret with Auth.ClientToken and           *)
(* Auth.LeaseDuration.                                                     *)

NilSecret == [kind |-> "nil", tok |-> 0, lease |-> 0]
NoAuthSecret == [kind |-> "noauth", tok |-> 0, lease |-> 0]
AuthSecrets == {[kind |-> "auth", tok |-> t, lease |-> l] : t \in Tokens, l \in Leases}
Secrets == {NilSecret, NoAuthSecret} \cup AuthSecrets

WellFormed(s) == s.kind = "auth"

\* What client.Logical().Write("auth/approle/login") can answer: a transport
\* error, or a (possibly nil, possibly auth-less) secret without error.
LoginResponses ==
    {[err |-> "transport", secret |-> NilSecret]}
        \cup {[err |-> "nil", secret |-> s] : s \in Secrets}


----------------------------------------------------------------------------
(* Strings that the code inspects character by character are sequences of  *)
(* one-character strings; strings it only compares with "" stay strings.   *)

UpperCase == <<"A","B","C","D","E","F","G","H","I","J","K","L","M",
               "N","O","P","Q","R","S","T","U","V","W","X","Y","Z">>
LowerCase == <<"a","b","c","d","e","f","g","h","i","j","k","l","m",
               "n","o","p","q","r","s","t","u","v","w","x","y","z">>

\* strings.ToLower, restricted to ASCII letters
ToLower(str) ==
    [i \in 1..Len(str) |->
        IF \E k \in 1..Len(UpperCase) : UpperCase[k] = str[i]
        THEN LowerCase[CHOOSE k \in 1..Len(UpperCase) : UpperCase[k] = str[i]]
        ELSE str[i]]

AppRoleLower == <<"a","p","p","r","o","l","e">>
AppRoleMixed == <<"A","p","p","R","o","l","e">>
TokenAuth == <<"t","o","k","e","n">>

\* The configurations NewVault is called with.
Configs ==
    [Endpoint : {"", "https://kms.example"},
     CAPath : {""},
     AuthType : {<<>>, AppRoleMixed, TokenAuth},
     AppRoleID : {"", "r1"},
     AppRoleSecret : {"", "s1"},
     KeyName : {"", "master"},
     KeyVersion : {-1, 0},
     Namespace : {""}]

emptyVaultConfig ==
    [Endpoint |-> "", CAPath |-> "", AuthType |-> <<>>, AppRoleID |-> "",
     AppRoleSecret |-> "", KeyName |-> "", KeyVersion |-> 0, Namespace |-> ""]

IsEmpty(v) == v = emptyVaultConfig

\* VaultConfig.Verify: "nil", or the error of the first case of the switch that applies.
VerifyChecksKeyFirst(v) ==
    IF IsEmpty(v) THEN "nil"
    ELSE IF v.Endpoint = "" THEN "missing endpoint"
    ELSE IF v.KeyName = "" THEN "missing key name"
    ELSE IF v.KeyVersion < 0 THEN "negative key version"
    ELSE IF ToLower(v.AuthType) # AppRoleLower THEN "invalid authentication type"
    ELSE IF v.AppRoleID = "" THEN "missing AppRole ID"
    ELSE IF v.AppRoleSecret = "" THEN "missing AppSecret ID"
    ELSE "nil"

Verify(v) ==
    IF IsEmpty(v) THEN "nil"
    ELSE IF v.Endpoint = "" THEN "missing endpoint"
    ELSE IF ToLower(v.AuthType) # AppRoleLower THEN "invalid authentication type"
    ELSE IF v.AppRoleID = "" THEN "missing AppRole ID"
    ELSE IF v.AppRoleSecret = "" THEN "missing AppSecret ID"
    ELSE IF v.KeyName = "" THEN "missing key name"
    ELSE IF v.KeyVersion < 0 THEN "negative key version"
    ELSE "nil"

----------------------------------------------------------------------------
(* vaultService.login: the result (secret, err) for a given answer of the  *)
(* remote service.                                                         *)

loginAcceptsNoAuth(resp) ==
    IF resp.err # "nil" THEN [secret |-> NilSecret, err |-> resp.err]
    ELSE IF resp.secret.kind = "nil" THEN [secret |-> NilSecret, err |-> "ErrKMSAuthLogin"]
    ELSE [secret |-> resp.secret, err |-> "nil"]

login(resp) ==
    IF resp.err # "nil" THEN [secret |-> NilSecret, err |-> resp.err]
    ELSE IF resp.secret.kind = "nil" \/ resp.secret.kind = "noauth"
         THEN [secret |-> NilSecret, err |-> "ErrKMSAuthLogin"]
    ELSE [secret |-> resp.secret, err |-> "nil"]

\* The answers the remote service can give to a login request now.
LoginAnswers ==
    IF recovered
    THEN {[err |-> "nil", secret |-> s] : s \in AuthSecrets}
    ELSE LoginResponses

\* The token an answer delivers, if any.
Delivers(resp) ==
    IF resp.err = "nil" /\ WellFormed(resp.secret) THEN {resp.secret.tok} ELSE {}

----------------------------------------------------------------------------

NoCall == [pc |-> "idle", op |-> "none", tok |-> 0, res |-> "none"]


bgVars == <<bg, secret, newSecret, err, watcher, renewCh, doneCh, lastLogin, via>>
ctorVars == <<config, ctor, ctorErr>>
keyVars == <<genCall, unsealCall>>

----------------------------------------------------------------------------
(* NewVault *)

\* v.client.SetToken: the Vault client replaces its token as a whole, under
\* its lock.
SetTokenTorn(t) == token' \in {t, 0}

SetToken(t) == token' = t

\* Lines 107-112: reject the empty configuration, then whatever Verify rejects.
NewVaultSkipsVerify ==
    /\ ctor = "validate"
    /\ IF IsEmpty(config)
       THEN ctor' = "failed" /\ ctorErr' = "configuration must not be empty"
       ELSE ctor' = "client" /\ ctorErr' = ctorErr
    /\ UNCHANGED <<config, tasks, keyVars, token, lease, bgVars, recovered, calls, delivered, loginSent>>

NewVaultValidate ==
    /\ ctor = "validate"
    /\ IF IsEmpty(config)
       THEN ctor' = "failed" /\ ctorErr' = "configuration must not be empty"
       ELSE IF Verify(config) # "nil"
            THEN ctor' = "failed" /\ ctorErr' = Verify(config)
            ELSE ctor' = "client" /\ ctorErr' = ctorErr
    /\ UNCHANGED <<config, tasks, keyVars, token, lease, bgVars, recovered, calls, delivered, loginSent>>

\* Lines 114-125: ConfigureTLS and vault.NewClient may fail; no request is sent.
NewVaultClient ==
    /\ ctor = "client"
    /\ \E ok \in BOOLEAN :
         IF ok
         THEN ctor' = "login" /\ ctorErr' = ctorErr
         ELSE ctor' = "failed" /\ ctorErr' = "client"
    /\ UNCHANGED <<config, tasks, keyVars, token, lease, bgVars, recovered, calls, delivered, loginSent>>

\* Lines 127-130 with authenticate (180-206): the synchronous first login.
\* On success the token and the lease duration are stored, the background
\* goroutine is started with the secret, and the client is returned.
NewVaultAuthenticate ==
    /\ ctor = "login"
    /\ \E resp \in LoginAnswers :
         LET r == login(resp) IN
           /\ loginSent' = TRUE
           /\ delivered' = delivered \cup Delivers(resp)
           /\ IF r.err # "nil"
              THEN /\ ctor' = "failed"
                   /\ ctorErr' = r.err
                   /\ UNCHANGED <<token, lease, bg, secret, tasks>>
              ELSE IF ~WellFormed(r.secret)
              THEN \* secret.Auth.ClientToken on a nil Auth: nil dereference
                   /\ ctor' = "panicked"
                   /\ ctorErr' = ctorErr
                   /\ UNCHANGED <<token, lease, bg, secret, tasks>>
              ELSE /\ SetToken(r.secret.tok)
                   /\ lease' = r.secret.lease
                   /\ bg' = "renew"      \* line 190: go func(secret)
                   /\ tasks' = tasks + 1
                   /\ secret' = r.secret
                   /\ ctor' = "returned"
                   /\ ctorErr' = ctorErr
    /\ UNCHANGED <<config, keyVars, newSecret, err, watcher, renewCh, doneCh, lastLogin,
                   via, recovered, calls>>


----------------------------------------------------------------------------
(* The renewer of the Vault API library, as renewSecret uses it.           *)
(* go renewer.Renew() runs the watcher; while it runs it may push renew    *)
(* outputs to RenewCh, and it ends by sending one value, an error or nil,  *)
(* to DoneCh.  Nothing is sent after that.  renewSecret receives at most   *)
(* one renew output from a renewer (it returns on the first), so RenewCh   *)
(* holds the one pending output that can still be received.                *)

WatcherRenew ==
    /\ watcher = "running"
    /\ renewCh = <<>>
    /\ \E s \in Secrets :
         /\ renewCh' = Append(renewCh, s)
         /\ delivered' = delivered \cup (IF WellFormed(s) THEN {s.tok} ELSE {})
    /\ UNCHANGED <<ctorVars, tasks, keyVars, token, lease, bg, secret, newSecret, err, watcher, doneCh,
                   recovered, calls, loginSent, lastLogin, via>>

WatcherDone ==
    /\ watcher = "running"
    /\ \E e \in {"nil", "renewal failed"} : doneCh' = <<e>>
    /\ watcher' = "exited"
    /\ UNCHANGED <<ctorVars, tasks, keyVars, token, lease, bg, secret, newSecret, err, renewCh,
                   recovered, calls, delivered, loginSent, lastLogin, via>>

\* The remote service recovers: from now on every login succeeds.
Recover ==
    /\ ~recovered
    /\ recovered' = TRUE
    /\ UNCHANGED <<ctorVars, tasks, keyVars, token, lease, bgVars, calls, delivered, loginSent>>

----------------------------------------------------------------------------
(* The background goroutine of authenticate (lines 190-204).               *)
(* bg: "renew"  at line 192, about to call renewSecret(secret)             *)
(*     "select" in renewSecret's select (lines 145-157)                    *)
(*     "login"  at line 195, renewSecret has returned an error             *)
(*     "sleep"  at line 196                                                *)
(*     "store"  at line 200, newSecret holds the secret to store           *)
(*     "lease"  at line 202, the token is stored                           *)

\* Lines 136-143: NewRenewer fails only without a secret, and CriticalIf
\* then ends the goroutine; otherwise the watcher is started.
BgRenewStart ==
    /\ bg = "renew"
    /\ IF secret.kind = "nil"
       THEN bg' = "panicked" /\ UNCHANGED <<watcher, renewCh, doneCh>>
       ELSE /\ bg' = "select"
            /\ watcher' = "running"
            /\ renewCh' = <<>>
            /\ doneCh' = <<>>
    /\ newSecret' = NilSecret
    /\ err' = "nil"
    /\ via' = "none"
    /\ UNCHANGED <<ctorVars, tasks, keyVars, token, lease, secret, recovered, calls, delivered,
                   loginSent, lastLogin>>

\* Lines 147-150: what a value received from DoneCh makes renewSecret do:
\* an error is returned; after nil the loop selects again.
doneResult(e) ==
    IF e # "nil" THEN [returns |-> TRUE, err |-> e]
    ELSE [returns |-> FALSE, err |-> "nil"]

\* Lines 151-155: what a renew output received from RenewCh makes renewSecret return.
renewResultUnchecked(s) == [secret |-> s, err |-> "nil"]

renewResult(s) ==
    IF s.kind = "nil" \/ s.kind = "noauth"
    THEN [secret |-> NilSecret, err |-> "ErrKMSAuthLogin"]
    ELSE [secret |-> s, err |-> "nil"]

\* select, case err := <-renewer.DoneCh().  A return runs the deferred
\* renewer.Stop() and continues at line 193 with err != nil.
BgRecvDone ==
    /\ bg = "select"
    /\ doneCh # <<>>
    /\ LET r == doneResult(Head(doneCh)) IN
         IF r.returns
         THEN /\ bg' = "login"
              /\ err' = r.err
              /\ watcher' = "stopped"
              /\ renewCh' = <<>>
              /\ doneCh' = <<>>
         ELSE /\ bg' = "select"
              /\ doneCh' = Tail(doneCh)
              /\ UNCHANGED <<err, watcher, renewCh>>
    /\ UNCHANGED <<ctorVars, tasks, keyVars, token, lease, secret, newSecret, recovered, calls,
                   delivered, loginSent, lastLogin, via>>

\* select, case renew := <-renewer.RenewCh().  renewSecret returns either
\* way; line 193 sends an error to login and a secret to line 200.  The
\* return runs the deferred renewer.Stop().
BgRecvRenewLeavesWatcher ==
    /\ bg = "select"
    /\ renewCh # <<>>
    /\ LET r == renewResult(Head(renewCh)) IN
         /\ newSecret' = r.secret
         /\ err' = r.err
         /\ IF r.err # "nil"
            THEN bg' = "login" /\ via' = via /\ lastLogin' = lastLogin
            ELSE bg' = "store" /\ via' = "renew" /\ lastLogin' = "none"
    /\ renewCh' = <<>>
    /\ UNCHANGED <<ctorVars, tasks, keyVars, token, lease, secret, recovered, calls, delivered,
                   loginSent, watcher, doneCh>>

BgRecvRenew ==
    /\ bg = "select"
    /\ renewCh # <<>>
    /\ LET r == renewResult(Head(renewCh)) IN
         /\ newSecret' = r.secret
         /\ err' = r.err
         /\ IF r.err # "nil"
            THEN bg' = "login" /\ via' = via /\ lastLogin' = lastLogin
            ELSE bg' = "store" /\ via' = "renew" /\ lastLogin' = "none"
    /\ watcher' = "stopped"
    /\ renewCh' = <<>>
    /\ doneCh' = <<>>
    /\ UNCHANGED <<ctorVars, tasks, keyVars, token, lease, secret, recovered, calls, delivered,
                   loginSent>>

\* Line 195: login again; a failure leads to the retry delay of line 196,
\* a success to line 200.
BgLoginStep(afterFailure) ==
    /\ bg = "login"
    /\ \E resp \in LoginAnswers :
         LET r == login(resp) IN
           /\ loginSent' = TRUE
           /\ delivered' = delivered \cup Delivers(resp)
           /\ newSecret' = r.secret
           /\ err' = r.err
           /\ IF r.err # "nil"
              THEN bg' = afterFailure /\ lastLogin' = "failed" /\ via' = via
              ELSE bg' = "store" /\ lastLogin' = "none" /\ via' = "login"
    /\ UNCHANGED <<ctorVars, tasks, keyVars, token, lease, secret, watcher, renewCh, doneCh,
                   recovered, calls>>

\* A login that goes through authenticate() and so starts a goroutine again.
BgLoginReauthenticates ==
    /\ bg = "login"
    /\ \E resp \in LoginAnswers :
         LET r == login(resp) IN
           /\ loginSent' = TRUE
           /\ delivered' = delivered \cup Delivers(resp)
           /\ newSecret' = r.secret
           /\ err' = r.err
           /\ IF r.err # "nil"
              THEN bg' = "sleep" /\ lastLogin' = "failed" /\ via' = via /\ tasks' = tasks
              ELSE bg' = "store" /\ lastLogin' = "none" /\ via' = "login"
                     /\ tasks' = tasks + 1
    /\ UNCHANGED <<ctorVars, keyVars, token, lease, secret, watcher, renewCh, doneCh,
                   recovered, calls>>

BgLoginNoDelay == BgLoginStep("renew")

BgLoginStoresAnyway == BgLoginStep("store")

BgLogin == BgLoginStep("sleep")

\* Lines 196-197: time.Sleep(1 * time.Minute); continue
BgSleepThenLogin ==
    /\ bg = "sleep"
    /\ bg' = "login"
    /\ lastLogin' = "slept"
    /\ UNCHANGED <<ctorVars, tasks, keyVars, token, lease, secret, newSecret, err, watcher, renewCh,
                   doneCh, recovered, calls, delivered, loginSent, via>>

BgSleep ==
    /\ bg = "sleep"
    /\ bg' = "renew"
    /\ lastLogin' = "slept"
    /\ UNCHANGED <<ctorVars, tasks, keyVars, token, lease, secret, newSecret, err, watcher, renewCh,
                   doneCh, recovered, calls, delivered, loginSent, via>>

\* Lines 200-201: secret = newSecret; v.client.SetToken(secret.Auth.ClientToken)
BgStoreTokenKeepsSecret ==
    /\ bg = "store"
    /\ IF ~WellFormed(newSecret)
       THEN bg' = "panicked" /\ token' = token
       ELSE bg' = "lease" /\ SetToken(newSecret.tok)
    /\ UNCHANGED <<ctorVars, tasks, keyVars, lease, secret, newSecret, err, watcher, renewCh,
                   doneCh, recovered, calls, delivered, loginSent, lastLogin, via>>

BgStoreToken ==
    /\ bg = "store"
    /\ secret' = newSecret
    /\ IF ~WellFormed(newSecret)
       THEN bg' = "panicked" /\ token' = token   \* nil dereference
       ELSE bg' = "lease" /\ SetToken(newSecret.tok)
    /\ UNCHANGED <<ctorVars, tasks, keyVars, lease, newSecret, err, watcher, renewCh, doneCh, recovered,
                   calls, delivered, loginSent, lastLogin, via>>

\* Line 202: v.leaseDuration = time.Duration(secret.Auth.LeaseDuration)
BgStoreLease ==
    /\ bg = "lease"
    /\ lease' = secret.lease
    /\ bg' = "renew"
    /\ UNCHANGED <<ctorVars, tasks, keyVars, token, secret, newSecret, err, watcher, renewCh, doneCh,
                   recovered, calls, delivered, loginSent, lastLogin, via>>

----------------------------------------------------------------------------
(* GenerateKey and UnsealKey (lines 212-258).  A call sends one request,   *)
(* which carries the client's token as it is when the request is built,    *)
(* and returns when the answer arrives.                                    *)

Ops == {"GenerateKey", "UnsealKey"}

\* The token client.Logical().Write puts into the request it builds.
RequestTokenStale ==
    IF delivered = {} THEN token
    ELSE CHOOSE t \in delivered : \A o \in delivered : t <= o

RequestToken == token

\* Lines 219 and 247: the request is sent.
KeyOpSendWaitsForLogin(c) ==
    /\ ctor = "returned"
    /\ bg \notin {"login", "sleep"}
    /\ calls[c].pc = "idle"
    /\ \E op \in Ops :
         calls' = [calls EXCEPT ![c] =
                     [pc |-> "sent", op |-> op, tok |-> RequestToken, res |-> "none"]]
    /\ UNCHANGED <<ctorVars, tasks, keyVars, token, lease, bgVars, recovered, delivered, loginSent>>

KeyOpSend(c) ==
    /\ ctor = "returned"
    /\ calls[c].pc = "idle"
    /\ \E op \in Ops :
         calls' = [calls EXCEPT ![c] =
                     [pc |-> "sent", op |-> op, tok |-> RequestToken, res |-> "none"]]
    /\ UNCHANGED <<ctorVars, tasks, keyVars, token, lease, bgVars, recovered, delivered, loginSent>>

\* Lines 220-229 and 248-257: the answer arrives and the call returns.
KeyOpReturnDropsToken(c) ==
    /\ calls[c].pc = "sent"
    /\ \E res \in {"ok", "error"} :
         /\ calls' = [calls EXCEPT ![c] = [pc |-> "idle", op |-> "none", tok |-> 0, res |-> res]]
         /\ token' = IF res = "error" THEN 0 ELSE token
    /\ UNCHANGED <<ctorVars, tasks, keyVars, lease, bgVars, recovered, delivered, loginSent>>

KeyOpReturn(c) ==
    /\ calls[c].pc = "sent"
    /\ \E res \in {"ok", "error"} :
         calls' = [calls EXCEPT ![c] = [pc |-> "idle", op |-> "none", tok |-> 0, res |-> res]]
    /\ UNCHANGED <<ctorVars, tasks, keyVars, token, lease, bgVars, recovered, delivered, loginSent>>

----------------------------------------------------------------------------
(* The data of GenerateKey and UnsealKey.  Byte strings are sequences of   *)
(* numbers 0..255, texts are sequences of one-character strings.           *)

KeySize == 32           \* key [32]byte

Digits == <<"0","1","2","3","4","5","6","7","8","9">>

\* base64.StdEncoding: the alphabet, and "=" as padding
Base64Alphabet == UpperCase \o LowerCase \o Digits \o <<"+", "/">>

Base64Symbols == {Base64Alphabet[k] : k \in 1..Len(Base64Alphabet)}

\* The six bits a symbol of the alphabet stands for.
Base64Value ==
    [ch \in Base64Symbols |->
        (CHOOSE k \in 1..Len(Base64Alphabet) : Base64Alphabet[k] = ch) - 1]

ByteAt(b, i) == IF i <= Len(b) THEN b[i] ELSE 0

\* base64.StdEncoding.EncodeToString
Base64Encode(b) ==
    [p \in 1..(4 * ((Len(b) + 2) \div 3)) |->
        LET g == (p - 1) \div 4
            j == (p - 1) % 4
            v == ByteAt(b, 3*g + 1) * 65536 + ByteAt(b, 3*g + 2) * 256 + ByteAt(b, 3*g + 3)
            sextet == CASE j = 0 -> v \div 262144
                        [] j = 1 -> (v \div 4096) % 64
                        [] j = 2 -> (v \div 64) % 64
                        [] OTHER -> v % 64
        IN  IF 3*g + j > Len(b) THEN "=" ELSE Base64Alphabet[sextet + 1]]

\* The number of "=" that end a text (at most two count).
Padding(t) ==
    IF Len(t) >= 2 /\ t[Len(t)] = "=" /\ t[Len(t) - 1] = "=" THEN 2
    ELSE IF Len(t) >= 1 /\ t[Len(t)] = "=" THEN 1
    ELSE 0

\* base64.StdEncoding.DecodeString: the bytes, or an error for a text that is
\* not padded to a multiple of four or holds something outside the alphabet.
Base64Decode(t) ==
    LET k == Padding(t)
        valid == /\ Len(t) % 4 = 0
                 /\ \A p \in 1..(Len(t) - k) : t[p] \in Base64Symbols
        val(p) == IF t[p] = "=" THEN 0 ELSE Base64Value[t[p]]
    IN  IF ~valid THEN [err |-> "CorruptInputError", bytes |-> <<>>]
        ELSE [err |-> "nil",
              bytes |->
                [q \in 1..(3 * (Len(t) \div 4) - k) |->
                    LET g == (q - 1) \div 3
                        j == (q - 1) % 3
                        v == val(4*g + 1) * 262144 + val(4*g + 2) * 4096
                               + val(4*g + 3) * 64 + val(4*g + 4)
                    IN  CASE j = 0 -> v \div 65536
                          [] j = 1 -> (v \div 256) % 256
                          [] OTHER -> v % 256]]

\* A Context is a map from keys to values, here a set of <<key, value>> pairs
\* with distinct keys; keys and values are byte strings.
KeyA == <<97>>
KeyB == <<98>>
ValX == <<120>>
ValY == <<121>>

Contexts == { {}, {<<KeyA, ValX>>}, {<<KeyB, ValY>>, <<KeyA, ValX>>} }

\* Byte-wise order of byte strings, as sort.Strings orders keys.
BytesLess(a, b) ==
    \E i \in 1..Len(b) :
       /\ \A j \in 1..(i - 1) : j <= Len(a) /\ a[j] = b[j]
       /\ (i > Len(a) \/ (i <= Len(a) /\ a[i] < b[i]))

RECURSIVE WriteEntries(_)
WriteEntries(ctx) ==
    IF ctx = {} THEN <<>>
    ELSE LET e == CHOOSE x \in ctx : \A y \in ctx : y = x \/ BytesLess(x[1], y[1])
             rest == ctx \ {e}
         IN  <<34>> \o e[1] \o <<34, 58, 34>> \o e[2] \o <<34>>
               \o (IF rest = {} THEN <<>> ELSE <<44>>) \o WriteEntries(rest)

\* Context.WriteTo: the entries in the order of their keys, between braces.
WriteTo(ctx) == <<123>> \o WriteEntries(ctx) \o <<125>>

\* Lines 213-218: the payload of GenerateKey.
GeneratePayload(ctx) == [context |-> Base64Encode(WriteTo(ctx))]

\* Lines 240-246: the payload of UnsealKey.
UnsealPayloadWithoutContext(sealedKey, ctx) ==
    [ciphertext |-> sealedKey, context |-> Base64Encode(WriteTo({}))]

UnsealPayload(sealedKey, ctx) ==
    [ciphertext |-> sealedKey, context |-> Base64Encode(WriteTo(ctx))]

\* The transit engine of the remote service.  A sealed key is opaque to the
\* client; it stands for the key-ring that sealed it, the context it is bound
\* to and the key material it holds.
KeyIDs == {"my-key", "other-key"}

Material(len, n) == [i \in 1..len |-> (n * 37 + i * 11) % 256]

\* Key material of the expected size (two different ones), and shorter,
\* longer and empty material.
Materials ==
    {Material(len, 1) : len \in {0, KeySize - 1, KeySize, KeySize + 1}}
      \cup {Material(KeySize, 2)}

NoSealedKey == [keyID |-> "", context |-> <<>>, material |-> <<>>]
ZeroKey == [i \in 1..KeySize |-> 0]
TransportError == [kind |-> "transport", ciphertext |-> NoSealedKey, plaintext |-> <<>>]
Rejection == [kind |-> "rejected", ciphertext |-> NoSealedKey, plaintext |-> <<>>]

\* generate_data_key(keyID, context): fresh material, sealed and in base64;
\* the request can also fail, and the plaintext can be no base64 text.
GenerateAnswers(keyID, payload) ==
    {TransportError}
      \cup {[kind |-> "ok",
             ciphertext |-> [keyID |-> keyID, context |-> payload.context, material |-> m],
             plaintext |-> Base64Encode(m)] : m \in Materials}
      \cup {[kind |-> "ok",
             ciphertext |-> [keyID |-> keyID, context |-> payload.context,
                             material |-> Material(KeySize, 1)],
             plaintext |-> <<"A", "=">>]}

\* decrypt(keyID, ciphertext, context): the material of a sealed key of this
\* key-ring bound to this context; any other request is rejected, and the
\* request can fail.
DecryptAnswers(keyID, payload) ==
    {TransportError}
      \cup (IF payload.ciphertext.keyID = keyID
               /\ payload.ciphertext.context = payload.context
            THEN {[kind |-> "ok", ciphertext |-> NoSealedKey,
                   plaintext |-> Base64Encode(payload.ciphertext.material)]}
            ELSE {Rejection})

\* copy(key[:], []byte(plainKey)) into the zero key
CopyKeyRejectsShort(plainKey) ==
    [i \in 1..KeySize |-> IF Len(plainKey) >= KeySize THEN plainKey[i] ELSE 0]

CopyKey(plainKey) ==
    [i \in 1..KeySize |-> IF i <= Len(plainKey) THEN plainKey[i] ELSE 0]

\* Lines 220-229: what GenerateKey returns for an answer.
GenerateKeyResultSwallows(ans) ==
    IF ans.kind # "ok"
    THEN [key |-> ZeroKey, sealedKey |-> NoSealedKey, err |-> "nil"]
    ELSE LET plainKey == Base64Decode(ans.plaintext) IN
           IF plainKey.err # "nil"
           THEN [key |-> ZeroKey, sealedKey |-> NoSealedKey, err |-> plainKey.err]
           ELSE [key |-> CopyKey(plainKey.bytes), sealedKey |-> ans.ciphertext, err |-> "nil"]

GenerateKeyResult(ans) ==
    IF ans.kind # "ok"
    THEN [key |-> ZeroKey, sealedKey |-> NoSealedKey, err |-> ans.kind]
    ELSE LET plainKey == Base64Decode(ans.plaintext) IN
           IF plainKey.err # "nil"
           THEN [key |-> ZeroKey, sealedKey |-> NoSealedKey, err |-> plainKey.err]
           ELSE [key |-> CopyKey(plainKey.bytes), sealedKey |-> ans.ciphertext, err |-> "nil"]

\* Lines 248-257: what UnsealKey returns for an answer.
UnsealKeyResultSkipsDecoding(ans) ==
    IF ans.kind # "ok"
    THEN [key |-> ZeroKey, err |-> ans.kind]
    ELSE [key |-> CopyKey([i \in 1..Len(ans.plaintext) |->
                            IF ans.plaintext[i] = "=" THEN 0 ELSE Base64Value[ans.plaintext[i]]]),
          err |-> "nil"]

UnsealKeyResult(ans) ==
    IF ans.kind # "ok"
    THEN [key |-> ZeroKey, err |-> ans.kind]
    ELSE LET plainKey == Base64Decode(ans.plaintext) IN
           IF plainKey.err # "nil"
           THEN [key |-> ZeroKey, err |-> plainKey.err]
           ELSE [key |-> CopyKey(plainKey.bytes), err |-> "nil"]

\* A call that has not begun has sent no request; once it begins it has its
\* arguments and the token of its request, and once it has returned the kind
\* of answer it got and what it returned.
NoGenerate == [pc |-> "idle", requests |-> 0]

\* The sealedKey argument of the UnsealKey call is genCall.sealedKey.
NoUnseal == [pc |-> "idle", requests |-> 0]

\* GenerateKey(keyID, ctx), lines 212-219: the request is sent.
GenerateKeySend ==
    /\ ctor = "returned"
    /\ genCall.pc = "idle"
    /\ \E keyID \in KeyIDs, ctx \in Contexts :
         genCall' = [pc |-> "sent", keyID |-> keyID, ctx |-> ctx, tok |-> RequestToken,
                     requests |-> genCall.requests + 1]
    /\ UNCHANGED <<ctorVars, tasks, unsealCall, token, lease, bgVars, recovered, calls,
                   delivered, loginSent>>

\* GenerateKey, lines 220-229: the answer arrives and the call returns.
GenerateKeyReturn ==
    /\ genCall.pc = "sent"
    /\ \E ans \in GenerateAnswers(genCall.keyID, GeneratePayload(genCall.ctx)) :
         LET r == GenerateKeyResult(ans) IN
           genCall' = [pc |-> "done", keyID |-> genCall.keyID, ctx |-> genCall.ctx,
                       tok |-> 0, requests |-> genCall.requests, answer |-> ans.kind,
                       key |-> r.key, sealedKey |-> r.sealedKey, err |-> r.err]
    /\ UNCHANGED <<ctorVars, tasks, unsealCall, token, lease, bgVars, recovered, calls,
                   delivered, loginSent>>

\* UnsealKey(keyID, sealedKey, ctx), lines 239-247, on the sealed key that
\* GenerateKey returned: the request is sent.
UnsealKeySend ==
    /\ genCall.pc = "done"
    /\ genCall.err = "nil"
    /\ unsealCall.pc = "idle"
    /\ \E keyID \in KeyIDs, ctx \in Contexts :
         unsealCall' = [pc |-> "sent", keyID |-> keyID, ctx |-> ctx, tok |-> RequestToken,
                        requests |-> unsealCall.requests + 1]
    /\ UNCHANGED <<ctorVars, tasks, genCall, token, lease, bgVars, recovered, calls,
                   delivered, loginSent>>

\* UnsealKey, lines 248-257: the answer arrives and the call returns.
UnsealKeyReturn ==
    /\ unsealCall.pc = "sent"
    /\ \E ans \in DecryptAnswers(unsealCall.keyID,
                                 UnsealPayload(genCall.sealedKey, unsealCall.ctx)) :
         LET r == UnsealKeyResult(ans) IN
           unsealCall' = [pc |-> "done", keyID |-> unsealCall.keyID,
                          ctx |-> unsealCall.ctx, tok |-> 0,
                          requests |-> unsealCall.requests, answer |-> ans.kind,
                          key |-> r.key, err |-> r.err]
    /\ UNCHANGED <<ctorVars, tasks, genCall, token, lease, bgVars, recovered, calls,
                   delivered, loginSent>>

----------------------------------------------------------------------------
(* Initial state: NewVault has been called with some configuration.        *)

Init ==
    /\ config \in Configs
    /\ ctor = "validate"
    /\ ctorErr = "nil"
    /\ token = 0
    /\ lease = 0
    /\ bg = "none"
    /\ secret = NilSecret
    /\ newSecret = NilSecret
    /\ watcher = "none"
    /\ renewCh = <<>>
    /\ doneCh = <<>>
    /\ recovered = FALSE
    /\ calls = [c \in Callers |-> NoCall]
    /\ delivered = {}
    /\ loginSent = FALSE
    /\ err = "nil"
    /\ lastLogin = "none"
    /\ via = "none"
    /\ tasks = 0
    /\ genCall = NoGenerate
    /\ unsealCall = NoUnseal

BgNext ==
    \/ BgRenewStart
    \/ BgRecvDone
    \/ BgRecvRenew
    \/ BgLogin
    \/ BgSleep
    \/ BgStoreToken
    \/ BgStoreLease

WatcherNext == WatcherRenew \/ WatcherDone

Next ==
    \/ NewVaultValidate
    \/ NewVaultClient
    \/ NewVaultAuthenticate
    \/ BgRenewStart
    \/ BgRecvDone
    \/ BgRecvRenew
    \/ BgLogin
    \/ BgSleep
    \/ BgStoreToken
    \/ BgStoreLease
    \/ WatcherRenew
    \/ WatcherDone
    \/ \E c \in Callers : KeyOpSend(c)
    \/ \E c \in Callers : KeyOpReturn(c)

\* The remote service may fail any login at any time.
Spec == Init /\ [][Next]_vars

\* The same program with a remote service that can recover for good, a
\* goroutine that is scheduled fairly, and a watcher that, while it runs,
\* eventually delivers an event.
NextRecovering == Next \/ Recover

FairSpec == Init /\ [][NextRecovering]_vars /\ WF_vars(BgNext) /\ WF_vars(WatcherNext)

\* Verify called on a configuration by itself, as the configuration loader
\* of the server calls it.
VerifyInit ==
    /\ config \in Configs
    /\ ctor = "verify"
    /\ ctorErr = "nil"
    /\ token = 0
    /\ lease = 0
    /\ bg = "none"
    /\ secret = NilSecret
    /\ newSecret = NilSecret
    /\ watcher = "none"
    /\ renewCh = <<>>
    /\ doneCh = <<>>
    /\ recovered = FALSE
    /\ calls = [c \in Callers |-> NoCall]
    /\ delivered = {}
    /\ loginSent = FALSE
    /\ err = "nil"
    /\ lastLogin = "none"
    /\ via = "none"
    /\ tasks = 0
    /\ genCall = NoGenerate
    /\ unsealCall = NoUnseal

\* Lines 82-101: Verify returns.
VerifyCall ==
    /\ ctor = "verify"
    /\ ctor' = "verified"
    /\ ctorErr' = Verify(config)
    /\ UNCHANGED <<config, tasks, keyVars, token, lease, bgVars, recovered, calls, delivered,
                   loginSent>>

VerifySpec == VerifyInit /\ [][VerifyCall]_vars

\* The data path of the two operations: a client that NewVault has returned,
\* a GenerateKey call and an UnsealKey call on the sealed key it returned,
\* while the goroutine goes on renewing and the renewals replace the token.
KeyInit ==
    /\ config \in {v \in Configs : ~IsEmpty(v) /\ Verify(v) = "nil"}
    /\ ctor = "returned"
    /\ ctorErr = "nil"
    /\ secret \in AuthSecrets
    /\ token = secret.tok
    /\ lease = secret.lease
    /\ bg = "renew"
    /\ newSecret = NilSecret
    /\ watcher = "none"
    /\ renewCh = <<>>
    /\ doneCh = <<>>
    /\ recovered = FALSE
    /\ calls = [c \in Callers |-> NoCall]
    /\ delivered = {token}
    /\ loginSent = TRUE
    /\ err = "nil"
    /\ lastLogin = "none"
    /\ via = "none"
    /\ tasks = 1
    /\ genCall = NoGenerate
    /\ unsealCall = NoUnseal

KeyNext ==
    \/ GenerateKeySend
    \/ GenerateKeyReturn
    \/ UnsealKeySend
    \/ UnsealKeyReturn
    \/ BgRenewStart
    \/ WatcherRenew
    \/ BgRecvRenew
    \/ BgStoreToken
    \/ BgStoreLease

KeySpec == KeyInit /\ [][KeyNext]_vars


----------------------------------------------------------------------------
(* Properties *)

InFlight(c) == calls[c].pc = "sent"

\* C1: in renewSecret's wait, every delivery of a done event, with or without
\* an error, ends the wait and takes the goroutine to a login attempt; a done
\* event without error never leaves it waiting.
C1_DoneEventEndsWait == [][BgRecvDone => bg' = "login"]_vars

\* C2: after a failed renewal and a failed login, once the remote service has
\* recovered the goroutine eventually stores a new token (fair scheduling of
\* the goroutine, same client).  The claim asks for a token from a successful
\* login; a token from a successful renewal is accepted here as well, so a
\* behaviour that violates this violates the claim.
C2_RecoversAfterFailure ==
    (lastLogin # "none" /\ recovered) ~> (bg = "lease" /\ via \in {"login", "renew"})

\* C3, as claimed: after a failed login and the backoff wait, the goroutine's
\* next step towards the remote service is another login attempt.
C3_BackoffThenLogin == [][BgSleep => bg' = "login"]_vars

\* C3, amended: a failed login leads to the backoff wait; after the wait the
\* goroutine starts a new renewal wait on the secret it still holds, with the
\* stored token unchanged; and it reaches a login attempt only from a renewal
\* wait that returned an error.
C3_BackoffThenRenewal ==
    [][/\ (bg = "login" /\ err' # "nil" => bg' \in {"login", "sleep"})
       /\ (bg = "sleep" /\ bg' # "sleep"
             => bg' = "renew" /\ secret' = secret /\ token' = token)
       /\ (bg = "renew" /\ bg' # "renew" => bg' = "select" /\ watcher' = "running")
       /\ (bg # "login" /\ bg' = "login" => bg = "select" /\ err' # "nil")]_vars

\* C3 witness: a renewal wait on the old secret, entered after a failed login
\* and its backoff wait.
C3_Witness ==
    /\ bg = "select"
    /\ lastLogin = "slept"
    /\ watcher = "running"
    /\ secret.tok = token

\* C4: at a login attempt of the goroutine, the previous login attempt, if it
\* failed, has been followed by a completed backoff wait.
C4_BackoffBetweenLogins == bg = "login" => lastLogin # "failed"

\* C4 witness: the goroutine is about to log in again after a failed login
\* and the backoff wait.
C4_Witness == bg = "login" /\ lastLogin = "slept"

\* C5: the token carried by every request in flight is, as a whole, one of
\* the tokens delivered by a successful login or renewal; never the empty
\* token or another value.
C5_WholeDeliveredToken ==
    \A c \in Callers : InFlight(c) => calls[c].tok \in delivered /\ calls[c].tok # 0

\* C5 witness: two calls in flight with different tokens while the goroutine
\* is between storing the token and storing the lease duration.
C5_Witness ==
    /\ bg = "lease"
    /\ \E c1, c2 \in Callers :
         /\ InFlight(c1) /\ InFlight(c2)
         /\ calls[c1].tok # calls[c2].tok
         /\ calls[c1].tok = token

\* C6: a call's request carries the token stored in the client at the moment
\* the request is sent.
C6_TokenAtCallTime ==
    [][\A c \in Callers :
          calls[c].pc = "idle" /\ calls'[c].pc = "sent" => calls'[c].tok = token]_vars

\* C6 witness: two calls in flight that were sent with different tokens, the
\* later of them with the token stored now: that one is not the token of the
\* construction.
C6_Witness ==
    \E c1, c2 \in Callers :
       /\ InFlight(c1) /\ InFlight(c2)
       /\ calls[c1].tok # calls[c2].tok
       /\ calls[c2].tok = token
       /\ via = "renew"

\* C7: the first login decides the construction.  If it delivers no
\* well-formed secret, NewVault fails with an error, nothing is stored and no
\* goroutine is started; a client is returned only with the token and lease
\* of a well-formed secret stored and the goroutine started on that secret.
C7_FirstLoginIsFatal ==
    /\ [][ctor = "login" /\ ctor' # "login" =>
            IF delivered' = {}
            THEN /\ ctor' = "failed" /\ ctorErr' # "nil"
                 /\ token' = 0 /\ lease' = 0 /\ bg' = "none"
            ELSE /\ ctor' = "returned" /\ ctorErr' = "nil"
                 /\ WellFormed(secret') /\ delivered' = {secret'.tok}
                 /\ token' = secret'.tok /\ lease' = secret'.lease
                 /\ bg' = "renew"]_vars
    /\ [](ctor \in {"failed", "panicked"} =>
            /\ token = 0 /\ lease = 0 /\ bg = "none" /\ watcher = "none"
            /\ \A c \in Callers : calls[c] = NoCall)

\* C7 witness: NewVault has failed on its login.
C7_Witness ==
    /\ ctor = "failed"
    /\ loginSent
    /\ ctorErr \in {"transport", "ErrKMSAuthLogin"}
    /\ bg = "none"

\* C8: no login request is sent and no goroutine is started before the
\* validation or for a configuration that Verify rejects; such a
\* configuration makes NewVault fail with Verify's error.
C8_ValidationGatesConstruction ==
    /\ (ctor = "validate" => ~loginSent /\ bg = "none")
    /\ (Verify(config) # "nil" =>
          /\ ~loginSent /\ bg = "none" /\ token = 0
          /\ ctor \in {"validate", "failed"}
          /\ (ctor = "failed" => ctorErr = Verify(config)))

\* C8 witness: NewVault has failed on a configuration that Verify rejects.
C8_Witness ==
    /\ Verify(config) # "nil"
    /\ ctor = "failed"
    /\ ctorErr = Verify(config)
    /\ ~loginSent

\* C9: once the client is constructed, the stored token and lease duration
\* change only in the goroutine's store steps, to the fields of a well-formed
\* secret that a renewal or a login delivered; the steps of a failed renewal
\* and of a failed login change neither of them nor any caller's call.
C9_StoreOnlyOnSuccess ==
    /\ [](bg \in {"store", "lease"} =>
            LET s == IF bg = "store" THEN newSecret ELSE secret IN
              /\ WellFormed(s)
              /\ s.tok \in delivered
              /\ via \in {"renew", "login"}
              /\ err = "nil")
    /\ [][/\ (ctor = "returned" /\ token' # token
                => bg = "store" /\ token' = newSecret.tok)
          /\ (ctor = "returned" /\ lease' # lease
                => bg = "lease" /\ lease' = secret.lease /\ token = secret.tok)
          /\ ((bg = "select" /\ bg' = "login") \/ (bg = "login" /\ bg' = "sleep")
                => err' # "nil" /\ UNCHANGED <<token, lease, calls, secret>>)]_vars

\* C9 witness: an iteration in which the renewal failed and the login failed
\* has ended, with the stored token still the one of the held secret.
C9_Witness ==
    /\ bg = "sleep"
    /\ lastLogin = "failed"
    /\ err # "nil"
    /\ token = secret.tok
    /\ lease = secret.lease

\* C10: a renew output with a nil secret or a nil auth section makes
\* renewSecret return an error: the goroutine goes on to a login attempt,
\* the stored token, lease and held secret stay, and the goroutine never
\* crashes.
C10_MalformedRenewalIsFailure ==
    /\ [][BgRecvRenew /\ ~WellFormed(Head(renewCh)) =>
            /\ bg' = "login"
            /\ err' = "ErrKMSAuthLogin"
            /\ UNCHANGED <<token, lease, secret>>]_vars
    /\ [](bg # "panicked")

\* C10 witness: the goroutine is at its login attempt because the renewal
\* wait returned ErrKMSAuthLogin.
C10_Witness == bg = "login" /\ err = "ErrKMSAuthLogin" /\ token = secret.tok

\* C11: round trip.  When GenerateKey(keyID, C) has returned a key of 32-byte
\* material and its sealed key, and UnsealKey(keyID, sealedKey, C) has got
\* the service's answer, UnsealKey returns no error and the same key, whatever
\* the goroutine did to the token in between.
C11_RoundTrip ==
    (/\ genCall.pc = "done" /\ genCall.err = "nil"
     /\ Len(genCall.sealedKey.material) = KeySize
     /\ unsealCall.pc = "done"
     /\ unsealCall.keyID = genCall.keyID
     /\ unsealCall.ctx = genCall.ctx
     /\ unsealCall.answer # "transport")
    => /\ unsealCall.err = "nil"
       /\ unsealCall.key = genCall.key
       /\ \A i \in 1..KeySize : unsealCall.key[i] = genCall.sealedKey.material[i]

\* C11 witness: a round trip of 32-byte material under a context of two
\* entries has returned, after a renewal replaced the token.
C11_Witness ==
    /\ genCall.pc = "done" /\ genCall.err = "nil"
    /\ Len(genCall.sealedKey.material) = KeySize
    /\ Cardinality(genCall.ctx) = 2
    /\ unsealCall.pc = "done" /\ unsealCall.err = "nil"
    /\ unsealCall.keyID = genCall.keyID /\ unsealCall.ctx = genCall.ctx
    /\ unsealCall.key = genCall.key
    /\ via = "renew"

\* C12: an UnsealKey call whose context serializes to other bytes than the
\* context the sealed key was generated with returns an error, the service's
\* rejection or the failure of the request, and no key.
C12_ContextMismatchFails ==
    (/\ unsealCall.pc = "done"
     /\ WriteTo(unsealCall.ctx) # WriteTo(genCall.ctx))
    => /\ unsealCall.answer \in {"rejected", "transport"}
       /\ unsealCall.err # "nil"
       /\ unsealCall.key = ZeroKey

\* C12 witness: the service rejected an UnsealKey call with the key-ring of
\* the sealed key and another context.
C12_Witness ==
    /\ unsealCall.pc = "done"
    /\ unsealCall.keyID = genCall.keyID
    /\ unsealCall.ctx # genCall.ctx
    /\ unsealCall.answer = "rejected"
    /\ unsealCall.err = "rejected"

\* C13: a call has sent exactly one request from the moment it sends it to
\* after it has returned, and a call whose request failed has returned an
\* error.
C13_OneRequestErrorsSurface ==
    /\ genCall.pc \in {"sent", "done"} => genCall.requests = 1
    /\ unsealCall.pc \in {"sent", "done"} => unsealCall.requests = 1
    /\ (genCall.pc = "done" /\ genCall.answer \in {"transport", "rejected"})
         => genCall.err # "nil" /\ genCall.key = ZeroKey
    /\ (unsealCall.pc = "done" /\ unsealCall.answer \in {"transport", "rejected"})
         => unsealCall.err # "nil" /\ unsealCall.key = ZeroKey

\* C13 witness: a GenerateKey call whose request failed has returned.
C13_Witness ==
    /\ genCall.pc = "done"
    /\ genCall.answer = "transport"
    /\ genCall.requests = 1
    /\ genCall.err = "transport"

\* C14: a step of a GenerateKey or UnsealKey call, its request or its return
\* with or without error, changes nothing of the token, the lease duration
\* and the goroutine, and nothing of any other call.
C14_KeyOpFrame ==
    [][\A c \in Callers :
         calls'[c] # calls[c]
           => /\ UNCHANGED <<token, lease, bgVars, tasks, delivered, loginSent>>
              /\ \A d \in Callers \ {c} : calls'[d] = calls[d]]_vars

\* C14 witness: a call has returned an error while another call is in flight
\* and the goroutine waits in renewSecret.
C14_Witness ==
    \E c \in Callers, d \in Callers :
       /\ c # d
       /\ calls[c].pc = "idle" /\ calls[c].res = "error"
       /\ InFlight(d)
       /\ bg = "select"
       /\ token # 0

\* The decoded plaintext of a call that the service answered from material m
\* has the bytes of m; the key it stands for in a 32-byte buffer:
IsPaddedPrefix(key, m) ==
    LET n == IF Len(m) < KeySize THEN Len(m) ELSE KeySize IN
      /\ DOMAIN key = 1..KeySize
      /\ \A i \in 1..n : key[i] = m[i]
      /\ \A i \in (n + 1)..KeySize : key[i] = 0

\* C15: a call that got a plaintext that decodes to n bytes returns no error,
\* whether n is 32 or not, and a key of the first min(n, 32) of these bytes
\* followed by zero bytes.
C15_KeyIsPaddedPrefix ==
    /\ (genCall.pc = "done" /\ genCall.answer = "ok"
          /\ genCall.err # "CorruptInputError")
          => /\ genCall.err = "nil"
             /\ IsPaddedPrefix(genCall.key, genCall.sealedKey.material)
    /\ (unsealCall.pc = "done" /\ unsealCall.answer = "ok")
          => /\ unsealCall.err = "nil"
             /\ IsPaddedPrefix(unsealCall.key, genCall.sealedKey.material)

\* C15 witness: both calls returned a key from plaintext of 31 bytes.
C15_Witness ==
    /\ genCall.pc = "done" /\ genCall.err = "nil"
    /\ Len(genCall.sealedKey.material) = KeySize - 1
    /\ genCall.key[1] = genCall.sealedKey.material[1]
    /\ genCall.key[1] # 0
    /\ genCall.key[KeySize] = 0
    /\ unsealCall.pc = "done" /\ unsealCall.err = "nil"
    /\ unsealCall.key = genCall.key

\* C15 witness, second case: plaintext of 33 bytes gave a key of its first 32.
C15_WitnessLong ==
    /\ genCall.pc = "done" /\ genCall.err = "nil"
    /\ Len(genCall.sealedKey.material) = KeySize + 1
    /\ genCall.key[KeySize] = genCall.sealedKey.material[KeySize]

\* The rules of a valid configuration in their order, each with its error.
SameIgnoringCase(a, b) ==
    /\ Len(a) = Len(b)
    /\ \A i \in 1..Len(a) :
         \/ a[i] = b[i]
         \/ \E k \in 1..Len(UpperCase) :
              {a[i], b[i]} = {UpperCase[k], LowerCase[k]}

ViolatedRules(v) ==
    <<[violated |-> v.Endpoint = "", err |-> "missing endpoint"],
      [violated |-> ~SameIgnoringCase(v.AuthType, AppRoleLower),
       err |-> "invalid authentication type"],
      [violated |-> v.AppRoleID = "", err |-> "missing AppRole ID"],
      [violated |-> v.AppRoleSecret = "", err |-> "missing AppSecret ID"],
      [violated |-> v.KeyName = "", err |-> "missing key name"],
      [violated |-> v.KeyVersion < 0, err |-> "negative key version"]>>

NumViolated(v) == Cardinality({i \in 1..Len(ViolatedRules(v)) : ViolatedRules(v)[i].violated})

\* C16: Verify returns no error for the all-zero configuration; for any other
\* configuration it returns the error of the first rule the configuration
\* violates, and no error exactly when it violates none.
C16_VerifyFirstViolatedRule ==
    ctor = "verified" =>
      LET rules == ViolatedRules(config)
          bad == {i \in 1..Len(rules) : rules[i].violated}
      IN  IF IsEmpty(config) THEN ctorErr = "nil"
          ELSE /\ bad # {} => \E i \in bad : /\ \A j \in bad : i <= j
                                            /\ ctorErr = rules[i].err
               /\ ctorErr = "nil" <=> bad = {}

\* C16 witness: Verify has returned the error of the authentication type for a
\* configuration that also lacks the role id and the key name.
C16_Witness ==
    /\ ctor = "verified"
    /\ config.Endpoint # ""
    /\ config.AuthType = TokenAuth
    /\ config.AppRoleID = ""
    /\ config.KeyName = ""
    /\ NumViolated(config) >= 3
    /\ ctorErr = "invalid authentication type"

\* C16 witness, second case: Verify has accepted a configuration that writes
\* the authentication type in mixed case.
C16_WitnessValid ==
    /\ ctor = "verified"
    /\ ~IsEmpty(config)
    /\ config.AuthType = AppRoleMixed
    /\ NumViolated(config) = 0
    /\ ctorErr = "nil"

\* C17: on a constructed client a call can send its request whenever it has
\* none in flight, and can return whenever it has one, in every state of the
\* goroutine: in renewSecret, at a login, in the retry delay, storing.
C17_CallersNeverBlocked ==
    ctor = "returned" =>
      \A c \in Callers :
         /\ calls[c].pc = "idle" => ENABLED KeyOpSend(c)
         /\ calls[c].pc = "sent" => ENABLED KeyOpReturn(c)

\* C17 witness: a call that was sent and has returned during one retry delay
\* of the goroutine cannot be told from the state alone, so the witness is
\* its middle: a call in flight, and another one free to start, while the
\* goroutine sleeps after a failed login.
C17_Witness ==
    \E c \in Callers, d \in Callers :
       /\ bg = "sleep"
       /\ InFlight(c) /\ ENABLED KeyOpReturn(c)
       /\ calls[d].pc = "idle" /\ ENABLED KeyOpSend(d)

\* C18: a constructed client has had its goroutine started exactly once, no
\* other client has one, and after construction the token and the lease
\* duration change only in the goroutine's two storing steps, which change
\* no call.
C18_OneTaskOwnsToken ==
    /\ [](/\ ctor = "returned" => tasks = 1 /\ bg # "none"
          /\ ctor # "returned" => tasks = 0 /\ bg = "none")
    /\ [][(ctor = "returned" /\ (token' # token \/ lease' # lease))
            => /\ bg \in {"store", "lease"}
               /\ bg' # bg
               /\ UNCHANGED <<calls, tasks>>]_vars

\* C18 witness: the goroutine of a constructed client has replaced the token
\* after a login of its own.
C18_Witness ==
    /\ ctor = "returned"
    /\ tasks = 1
    /\ via = "login"
    /\ bg \in {"lease", "renew"}
    /\ token = secret.tok

\* C19: outside renewSecret no watcher runs: when the goroutine is about to
\* call renewSecret every earlier watcher is stopped, so at most one runs at
\* a time, and when renewSecret has returned, to a login, the retry delay or
\* the storing of a secret, the watcher it started is stopped.
C19_WatcherStopped ==
    /\ bg \in {"login", "sleep", "store", "lease"} => watcher = "stopped"
    /\ bg = "renew" => watcher \in {"none", "stopped"}
    /\ watcher \in {"running", "exited"} => bg = "select"

\* C19 witness: the goroutine is in its retry delay and the watcher of the
\* renewal wait that failed is stopped.
C19_Witness == bg = "sleep" /\ watcher = "stopped" /\ lastLogin = "failed"

\* C20: when the goroutine is about to call renewSecret, its secret is there,
\* has its authentication part, and carries the token the client holds.
C20_LoopSecretMatchesToken ==
    bg = "renew" => WellFormed(secret) /\ secret.tok = token

\* C20 witness: the goroutine is back at renewSecret after a failed renewal,
\* a failed login and the retry delay, with the secret of the stored token.
C20_Witness ==
    /\ bg = "renew"
    /\ lastLogin = "slept"
    /\ WellFormed(secret)
    /\ secret.tok = token
    /\ token # 0

=============================================================================
